---- MODULE Spec2Model ----
(***************************************************************************)
(* SpeciesEvolver (landlab/components/species_evolution/species_evolution  *)
(* .py) as a state machine.                                                *)
(*                                                                         *)
(* The component owns the record, the zone ledger, the species ledger and  *)
(* the identifier registry.  Zone managers and species are collaborators:  *)
(* what _create_zones, _update_paths and _evolve return is drawn from      *)
(* bounded sets.  Zone and species objects are numbered 1..NumZones and    *)
(* 1..NumSpecies; object identity is the number.  A clade name is the      *)
(* sequence of its letters' positions in ascii_uppercase: <<1>> is 'A',    *)
(* <<26>> is 'Z', <<1, 2>> is 'AB'.                                        *)
(***************************************************************************)
EXTENDS Integers, Sequences, FiniteSets, TLC

\* ------------------------------------------------------------------ bounds

NumZones == 3
NumManagers == 2
NumSpecies == 2
MaxTicks == 2
MaxDt == 1
MaxCreate == 1
MaxDest == 1
MaxChildren == 1
MaxClades == 705
MaxRecordTicks == 4

\* -------------------------------------------------------- program constants

\* len(ascii_uppercase)
AlphabetSize == 26
\* np.nan: the missing-value sentinel of the record and the prior time of a
\* record with one entry.  Every comparison with it is false.
NaN == -99
\* None: the value of a clade that has no species number issued yet.
None == -1
\* The default initial_time.
InitialTime == 0

Zones == 1..NumZones
ZoneManagers == 1..NumManagers
Species == 1..NumSpecies
\* A species whose parent_species is None has parent NoSpecies.
NoSpecies == 0
\* The _identifier of a species that was never given one.
NoIdentifier == <<>>
\* The keys collaborators write into a record add on.
Keys == {"splits"}
\* dt is not validated by run_one_step: zero and negative steps are inputs.
DTs == (0 - 1)..MaxDt

\* Zone._manager: the manager that created the zone.
ManagerOf(z) == ((z - 1) % NumManagers) + 1

\* ------------------------------------------------------------------ helpers

Range(s) == {s[i] : i \in DOMAIN s}

Max(s) == CHOOSE m \in Range(s) : \A n \in Range(s) : n <= m

\* The lists python can produce from a set: every order of its elements.
ListsOf(S) == {l \in [1..Cardinality(S) -> S] : Range(l) = S}

\* A set of zones as the list a collaborator returns them in: in the order
\* the zones are numbered.
RECURSIVE Ascending(_)
Ascending(S) ==
    IF S = {} THEN <<>>
    ELSE LET m == CHOOSE m \in S : \A n \in S : m <= n
         IN <<m>> \o Ascending(S \ {m})

\* [value] * n
RECURSIVE Repeat(_, _)
Repeat(value, n) == IF n <= 0 THEN <<>> ELSE <<value>> \o Repeat(value, n - 1)

\* list.index: the first position of obj in list.
Index(list, obj) == CHOOSE i \in DOMAIN list :
                        list[i] = obj /\ \A j \in 1..(i - 1) : list[j] # obj

\* sorted(list)
RECURSIVE Sorted(_)
Sorted(list) ==
    IF list = <<>> THEN <<>>
    ELSE LET i == CHOOSE i \in DOMAIN list : \A j \in DOMAIN list : list[i] <= list[j]
             rest == [j \in 1..(Len(list) - 1) |-> IF j < i THEN list[j] ELSE list[j + 1]]
         IN <<list[i]>> \o Sorted(rest)

\* numpy's <= and >= : false when either side is nan.
LessEqual(a, b) == a # NaN /\ b # NaN /\ a <= b
\* A faulty >= that is false on equal operands: a row stops being extant at
\* its own latest time.
GreaterEqualStrict(a, b) == a # NaN /\ b # NaN /\ a > b
GreaterEqual(a, b) == a # NaN /\ b # NaN /\ a >= b

\* -------------------------------------------------------------------- state

VARIABLES
    _record,        \* column name -> list; 'time' is always a column
    _zones,         \* the zone ledger: parallel lists time_appeared, latest_time, object
    _species,       \* the species ledger: clade, species_number, time_appeared, latest_time, object
    _species_ids,   \* clade name -> None or the highest species number issued
    identifier,     \* Species._identifier of every species object
    extant,         \* Species.extant of every species object
    issued,         \* history: every identifier _get_unused_species_id returned, in order
    clades_issued,  \* history: every name _get_unused_clade_name returned, in order
    last            \* history: the last call, what the collaborators returned in it, how it ended

vars == <<_record, _zones, _species, _species_ids, identifier, extant,
          issued, clades_issued, last>>


\* ------------------------------------------------------------ query methods

\* list(np.array(list)[mask]): the entries of list at the true positions of
\* mask, in the order of list.
RECURSIVE Masked(_, _, _)
Masked(list, mask, i) ==
    IF i > Len(list) THEN <<>>
    ELSE (IF mask[i] THEN <<list[i]>> ELSE <<>>) \o Masked(list, mask, i + 1)

\* _objects_at_time(time, dictionary)
ObjectsAtTime(time, dictionary) ==
    LET appeared == dictionary.time_appeared
        latest == dictionary.latest_time
        appeared_before_time == [i \in DOMAIN appeared |-> LessEqual(appeared[i], time)]
        present_at_time == [i \in DOMAIN latest |-> GreaterEqual(latest[i], time)]
        extant_at_time == [i \in DOMAIN appeared |->
                              appeared_before_time[i] /\ present_at_time[i]]
    IN Masked(dictionary.object, extant_at_time, 1)

\* zones_at_time(time)
ZonesAtTime(time) == ObjectsAtTime(time, _zones)

\* species_at_time(time)
SpeciesAtTime(time) == ObjectsAtTime(time, _species)

\* A python value as a query reads it: its type, the clade name it holds if
\* it is a str, the number it holds if it is an int or a bool (True is 1).
Element(type, clade, num) == [type |-> type, clade |-> clade, num |-> num]

\* The identifier_element of a species_with_identifier call: a value, and
\* the elements it has if it is a tuple.
IdentifierElement(type, clade, num) ==
    [type |-> type, clade |-> clade, num |-> num, elements |-> <<>>]
TupleElement(elements) ==
    [type |-> "tuple", clade |-> <<>>, num |-> None, elements |-> elements]

\* Row i of DataFrame(dictionary), under the index label it keeps in a
\* selection.
FrameRow(dictionary, i) ==
    [index |-> i - 1,
     clade |-> dictionary.clade[i],
     species_number |-> dictionary.species_number[i],
     time_appeared |-> dictionary.time_appeared[i],
     latest_time |-> dictionary.latest_time[i],
     object |-> dictionary.object[i]]

\* sdf.loc[mask]
Loc(sdf, mask) == Masked([i \in DOMAIN sdf.object |-> FrameRow(sdf, i)], mask, 1)

\* sdf.clade == clade and sdf.species_number == num: a value that is no str
\* equals no clade name, a value that is no number equals no species number.
CladeIs(sdf, i, element) == element.type = "str" /\ sdf.clade[i] = element.clade
NumberIs(sdf, i, element) ==
    element.type \in {"int", "bool"} /\ sdf.species_number[i] = element.num

\* What a species_with_identifier call that selected s_out returns.
Selected(s_out) ==
    IF Len(s_out) = 0
    THEN [raised |-> "returned", none |-> TRUE, s_out |-> <<>>]
    ELSE [raised |-> "returned", none |-> FALSE, s_out |-> s_out]

\* The exception a species_with_identifier call ends with.
Raises(exception) == [raised |-> exception, none |-> FALSE, s_out |-> <<>>]

\* A faulty species_with_identifier that selects for a tuple the rows that
\* match the clade or the number.
SpeciesWithIdentifierAny(species, identifier_element) ==
    LET sdf == species
        elements == identifier_element.elements
    IN IF identifier_element.type = "tuple"
       THEN IF Len(elements) < 2 THEN Raises("IndexError")
            ELSE IF ~(Len(elements) = 2 /\ elements[1].type = "str"
                        /\ elements[2].type \in {"int", "bool"})
            THEN Raises("TypeError")
            ELSE Selected(Loc(sdf, [i \in DOMAIN sdf.object |->
                            CladeIs(sdf, i, elements[1]) \/ NumberIs(sdf, i, elements[2])]))
       ELSE IF identifier_element.type = "str"
       THEN Selected(Loc(sdf, [i \in DOMAIN sdf.object |->
                            CladeIs(sdf, i, identifier_element)]))
       ELSE IF identifier_element.type = "int"
       THEN Selected(Loc(sdf, [i \in DOMAIN sdf.object |->
                            NumberIs(sdf, i, identifier_element)]))
       ELSE Raises("TypeError")

\* species_with_identifier(identifier_element) on the species ledger: the
\* exception it raises, None, or the rows selected.  clade and num are read
\* from a tuple before it is tested (lines 611-612): a tuple with less
\* than two elements raises IndexError there.
SpeciesWithIdentifier(species, identifier_element) ==
    LET sdf == species
        elements == identifier_element.elements
    IN IF identifier_element.type = "tuple"
       THEN IF Len(elements) < 2 THEN Raises("IndexError")
            ELSE IF ~(Len(elements) = 2 /\ elements[1].type = "str"
                        /\ elements[2].type \in {"int", "bool"})
            THEN Raises("TypeError")
            ELSE Selected(Loc(sdf, [i \in DOMAIN sdf.object |->
                            CladeIs(sdf, i, elements[1]) /\ NumberIs(sdf, i, elements[2])]))
       ELSE IF identifier_element.type = "str"
       THEN Selected(Loc(sdf, [i \in DOMAIN sdf.object |->
                            CladeIs(sdf, i, identifier_element)]))
       ELSE IF identifier_element.type = "int"
       THEN Selected(Loc(sdf, [i \in DOMAIN sdf.object |->
                            NumberIs(sdf, i, identifier_element)]))
       ELSE Raises("TypeError")

\* ----------------------------------------------------------- record methods

\* _get_prior_time(): the second largest entry of the time column.
GetPriorTime(record) ==
    IF Len(record["time"]) < 2 THEN NaN
    ELSE Sorted(record["time"])[Len(record["time"]) - 1]

\* A faulty body of the loop of _insert_record_add_on that creates the column
\* of the key anew, also when the record has it.
InsertItemAnew(record, key, value) ==
    [k \in DOMAIN record \cup {key} |->
        IF k = key
        THEN Append(Repeat(NaN, Len(record["time"]) - 1), value)
        ELSE record[k]]

\* A faulty body of the loop of _insert_record_add_on that fills a column it
\* creates with nan for every entry of time, the current one too.
InsertItemFull(record, key, value) ==
    [k \in DOMAIN record \cup {key} |->
        IF k = key
        THEN Append(IF key \in DOMAIN record THEN record[key]
                    ELSE Repeat(NaN, Len(record["time"])),
                    value)
        ELSE record[k]]

\* The body of the loop of _insert_record_add_on for one item of the add on:
\* a column the record does not have is created with nan for every entry of
\* time but one; the value is appended.
InsertItem(record, key, value) ==
    [k \in DOMAIN record \cup {key} |->
        IF k = key
        THEN Append(IF key \in DOMAIN record THEN record[key]
                    ELSE Repeat(NaN, Len(record["time"]) - 1),
                    value)
        ELSE record[k]]

\* _insert_record_add_on(add_on).  An add on is the list of its items, a key
\* and a value each, in the order the dictionary holds them; the loop handles
\* them in that order, each on the record the earlier ones left.
RECURSIVE InsertRecordAddOn(_, _)
InsertRecordAddOn(record, add_on) ==
    IF add_on = <<>> THEN record
    ELSE InsertRecordAddOn(InsertItem(record, Head(add_on)[1], Head(add_on)[2]),
                           Tail(add_on))

\* defaultdict(float)
EmptyAddOn == <<>>

\* The keys of an add on, and the value it holds for a key.
AddOnKeys(add_on) == {add_on[i][1] : i \in DOMAIN add_on}
AddOnValue(add_on, key) == add_on[CHOOSE i \in DOMAIN add_on : add_on[i][1] = key][2]

\* ------------------------------------------------- data structure methods

\* A faulty _object_set_difference that reports every object as new.
ObjectSetDifferenceAll(objects, dataframe) ==
    LET objs == Range(objects)
        df_objs == Range(dataframe.object)
    IN [updated_objects |-> objs \cap df_objs,
        new_objects |-> objs]

\* _object_set_difference(objects, dataframe): the objects already in the
\* dataframe and the new ones.  Both are built from sets, so each object is
\* in them once; the order of the two lists is the iteration order of a
\* python set, which the callers below draw from ListsOf.
ObjectSetDifference(objects, dataframe) ==
    LET objs == Range(objects)
        df_objs == Range(dataframe.object)
    IN [updated_objects |-> objs \cap df_objs,
        new_objects |-> objs \ df_objs]

\* A faulty loop over the updated objects that sets no row's latest_time.
SetLatestTimeStale(dataframe, updated, time) == dataframe.latest_time

\* A faulty loop that sets the latest_time of every row once an object is
\* updated.
SetLatestTimeAll(dataframe, updated, time) ==
    [i \in DOMAIN dataframe.latest_time |->
        IF updated # {} THEN time ELSE dataframe.latest_time[i]]

\* The latest_time column after the loop over the updated objects: each sets
\* the row at list.index(object).
SetLatestTime(dataframe, updated, time) ==
    [i \in DOMAIN dataframe.latest_time |->
        IF \E obj \in updated : Index(dataframe.object, obj) = i
        THEN time ELSE dataframe.latest_time[i]]

\* _update_zone_data_structure(time, zones_at_time): the ledgers it can leave,
\* one per order of the new zones.
UpdateZoneDataStructure(zones, time, zones_at_time) ==
    LET d == ObjectSetDifference(zones_at_time, zones)
    IN {[time_appeared |-> zones.time_appeared \o Repeat(time, Len(z_new)),
         latest_time |-> SetLatestTime(zones, d.updated_objects, time)
                             \o Repeat(time, Len(z_new)),
         object |-> zones.object \o z_new] : z_new \in ListsOf(d.new_objects)}

\* _update_species_data_structure(time, species_at_time), reading the
\* identifiers in ident.
UpdateSpeciesDataStructure(species, ident, time, species_at_time) ==
    LET d == ObjectSetDifference(species_at_time, species)
    IN {[clade |-> species.clade \o [i \in DOMAIN s_new |-> ident[s_new[i]][1]],
         species_number |-> species.species_number
                                \o [i \in DOMAIN s_new |-> ident[s_new[i]][2]],
         time_appeared |-> species.time_appeared \o Repeat(time, Len(s_new)),
         latest_time |-> SetLatestTime(species, d.updated_objects, time)
                             \o Repeat(time, Len(s_new)),
         object |-> species.object \o s_new] : s_new \in ListsOf(d.new_objects)}

\* ------------------------------------------------------ identifier registry

\* [''.join(s) for s in product(ascii_uppercase, repeat=size)]
Product(size) == [1..size -> 1..AlphabetSize]

\* A faulty order on names in which the last differing letter decides.
NameLessEqualLast(a, b) ==
    LET n == IF Len(a) < Len(b) THEN Len(a) ELSE Len(b)
        diff == {i \in 1..n : a[i] # b[i]}
    IN IF diff = {} THEN Len(a) <= Len(b)
       ELSE LET i == CHOOSE i \in diff : \A j \in diff : i >= j
            IN a[i] < b[i]

\* String order on names: the first differing letter decides, a proper prefix
\* comes first.
NameLessEqual(a, b) ==
    LET n == IF Len(a) < Len(b) THEN Len(a) ELSE Len(b)
        diff == {i \in 1..n : a[i] # b[i]}
    IN IF diff = {} THEN Len(a) <= Len(b)
       ELSE LET i == CHOOSE i \in diff : \A j \in diff : i <= j
            IN a[i] < b[i]

\* A faulty choice of the name that does not leave out the used names.
FirstOfAll(names, used_name) ==
    CHOOSE n \in names : \A m \in names : NameLessEqual(n, m)

\* np.setdiff1d(names, used_name)[0]: setdiff1d returns the unused names
\* sorted, so its first entry is the least of them.
FirstUnused(names, used_name) ==
    CHOOSE n \in names \ used_name : \A m \in names \ used_name : NameLessEqual(n, m)

\* The while loop of _get_unused_clade_name: the first size whose names are
\* not all used.
RECURSIVE PotentialSize(_, _)
PotentialSize(size, used_name) ==
    IF Product(size) \ used_name = {} THEN PotentialSize(size + 1, used_name) ELSE size

\* self._species_ids[clade_name] = None
Register(species_ids, clade_name) ==
    [clade_name |-> clade_name,
     species_ids |-> [c \in DOMAIN species_ids \cup {clade_name} |->
                         IF c = clade_name THEN None ELSE species_ids[c]]]

\* _get_unused_clade_name(): the name returned and the registry after it.
GetUnusedCladeName(species_ids) ==
    LET used_name == DOMAIN species_ids
        alphabet == Product(1)
    IN Register(species_ids,
                IF alphabet \ used_name # {}
                THEN FirstUnused(alphabet, used_name)
                ELSE FirstUnused(Product(PotentialSize(1, used_name)), used_name))

\* A faulty _get_unused_species_id that does not add 1 to the number of a
\* clade that has one.
GetUnusedSpeciesIdStale(species_ids, clade_name) ==
    LET number == IF species_ids[clade_name] = None THEN 0
                  ELSE species_ids[clade_name]
    IN [sid |-> <<clade_name, number>>,
        species_ids |-> [species_ids EXCEPT ![clade_name] = number]]

\* A faulty _get_unused_species_id that adds 2 to the number of a clade that
\* has one.
GetUnusedSpeciesIdSkips(species_ids, clade_name) ==
    LET number == IF species_ids[clade_name] = None THEN 0
                  ELSE species_ids[clade_name] + 2
    IN [sid |-> <<clade_name, number>>,
        species_ids |-> [species_ids EXCEPT ![clade_name] = number]]

\* _get_unused_species_id(clade_name): the identifier returned and the
\* registry after it.
GetUnusedSpeciesId(species_ids, clade_name) ==
    LET number == IF species_ids[clade_name] = None THEN 0
                  ELSE species_ids[clade_name] + 1
    IN [sid |-> <<clade_name, number>>,
        species_ids |-> [species_ids EXCEPT ![clade_name] = number]]


\* ------------------------------------------------------------ collaborators

\* Species.parent_species.  Species objects are numbered in the order they
\* are constructed and a parent is constructed before its child: object 1 has
\* no parent, objects 2 and 3 name object 1, object 4 names object 2.
ParentSpecies(s) == s \div 2

\* Species.clade: the first element of the identifier.
Clade(ident, s) == ident[s][1]

\* ZoneManager._create_zones() of manager zm, asked for n zones: new zone
\* objects of that manager, which no ledger row holds yet.
CreateZones(zm, tracked, n) ==
    LET fresh == Ascending({z \in Zones \ tracked : ManagerOf(z) = zm})
    IN SubSeq(fresh, 1, IF n < Len(fresh) THEN n ELSE Len(fresh))

\* new_zones.extend(zm._create_zones()) for every manager from zm on.
RECURSIVE CreateAll(_, _, _)
CreateAll(zm, tracked, count) ==
    IF zm > NumManagers THEN <<>>
    ELSE CreateZones(zm, tracked, count[zm]) \o CreateAll(zm + 1, tracked, count)

\* What one _update_paths call can do: raise, or return destinations: the
\* prior zones it was handed (carry), these and the first zone once more, or
\* up to max_dest zones of any kind (prior zones, candidates, zones that were
\* extant earlier, zones no call has seen).
UpdatePathsRaises == [raises |-> TRUE, carry |-> FALSE, dest |-> {}]
UpdatePathsCarries == [raises |-> FALSE, carry |-> TRUE, dest |-> {}]
UpdatePathsRepeats == [raises |-> FALSE, carry |-> TRUE, dest |-> {1}]
UpdatePathsOutcomes(max_dest) ==
    {UpdatePathsRaises, UpdatePathsCarries, UpdatePathsRepeats} \cup
    {[raises |-> FALSE, carry |-> FALSE, dest |-> d] :
        d \in {d \in SUBSET Zones : Cardinality(d) <= max_dest}}

\* What one _evolve call can do: raise, or set the extant flag and return
\* child species.
EvolveRaises == [raises |-> TRUE, extant |-> FALSE, children |-> <<>>]
EvolvePersists == [raises |-> FALSE, extant |-> TRUE, children |-> <<>>]
ChildLists(max_children) ==
    UNION {[1..n -> Species] : n \in 0..max_children}
EvolveOutcomes(max_children) ==
    {EvolveRaises} \cup
    {[raises |-> FALSE, extant |-> e, children |-> c] :
        e \in BOOLEAN, c \in ChildLists(max_children)}

\* The add ons the collaborators of one loop can leave: each key is written
\* or not.
AddOns ==
    {add_on \in UNION {[1..n -> Keys \X {1}] : n \in 0..Cardinality(Keys)} :
        \A i, j \in DOMAIN add_on : i # j => add_on[i][1] # add_on[j][1]}

\* ---------------------------------------------------------------- __init__

EmptyZones == [time_appeared |-> <<>>, latest_time |-> <<>>, object |-> <<>>]

EmptySpecies == [clade |-> <<>>, species_number |-> <<>>, time_appeared |-> <<>>,
                 latest_time |-> <<>>, object |-> <<>>]

\* The raised field of a call that returned; of one that did not, the field
\* names the method the exception came out of.
Returned == "returned"

NoCall == [op |-> "__init__", raised |-> Returned, warned |-> FALSE, species |-> NoSpecies,
           species_zones |-> {},
           dt |-> 0, time |-> InitialTime, new_zones |-> <<>>, zm_calls |-> <<>>, updated_zones |-> <<>>,
           evolved |-> <<>>, zone_add_on |-> EmptyAddOn, species_add_on |-> EmptyAddOn]

\* SpeciesEvolver(grid, initial_time, zone_managers)
Init ==
    \E count \in [ZoneManagers -> 0..MaxCreate] :
        LET initial_zones == CreateAll(1, {}, count)
        IN /\ _record = [key \in {"time"} |-> <<InitialTime>>]
           /\ _species = EmptySpecies
           /\ _zones \in UpdateZoneDataStructure(EmptyZones, InitialTime, initial_zones)
           /\ _species_ids = [c \in {} |-> None]
           /\ identifier = [s \in Species |-> NoIdentifier]
           /\ extant = [s \in Species |-> TRUE]
           /\ issued = <<>>
           /\ clades_issued = <<>>
           /\ last = [NoCall EXCEPT !.updated_zones = initial_zones]


\* ------------------------------------------------------------- run_one_step

\* The loop over the zone managers in _get_updated_zones, from manager zm on.
\* outcome[zm] is what zm._update_paths does; a raise ends the loop.
RECURSIVE UpdatePathsLoop(_, _, _, _, _)
UpdatePathsLoop(zm, prior_zones, new_zones, outcome, acc) ==
    IF zm > NumManagers \/ acc.raised THEN acc
    ELSE LET zm_prior_zones == SelectSeq(prior_zones, LAMBDA z : ManagerOf(z) = zm)
             zm_new_zones == SelectSeq(new_zones, LAMBDA z : ManagerOf(z) = zm)
             zm_dest == (IF outcome[zm].carry THEN zm_prior_zones ELSE <<>>)
                            \o Ascending(outcome[zm].dest)
         IN UpdatePathsLoop(zm + 1, prior_zones, new_zones, outcome,
                [raised |-> outcome[zm].raises,
                 destinations |-> acc.destinations \o zm_dest,
                 zm_calls |-> Append(acc.zm_calls,
                                     [zm |-> zm, prior_zones |-> zm_prior_zones,
                                      new_zones |-> zm_new_zones,
                                      zm_dest |-> zm_dest])])

\* The end of _get_updated_zones, loop being what its loop over the managers
\* left: the add on is inserted in the record and list(set(destinations)) is
\* returned.  The outcomes it can have, one per order list() can give the
\* set.
UpdatedZones(loop, record, add_on) ==
    IF loop.raised
    THEN {[raised |-> TRUE, zm_calls |-> loop.zm_calls, record |-> record,
           updated_zones |-> <<>>]}
    ELSE {[raised |-> FALSE, zm_calls |-> loop.zm_calls,
           record |-> InsertRecordAddOn(record, add_on),
           updated_zones |-> updated_zones] :
                updated_zones \in ListsOf(Range(loop.destinations))}

\* _get_updated_zones(time, new_zones): the outcomes it can have.  add_on is
\* the add on as the managers leave it.
GetUpdatedZones(record, zones, new_zones, outcome, add_on) ==
    UpdatedZones(UpdatePathsLoop(1, ObjectsAtTime(GetPriorTime(record), zones),
                                 new_zones, outcome,
                                 [raised |-> FALSE, destinations |-> <<>>, zm_calls |-> <<>>]),
                 record, add_on)

\* The loop over the child species of one _evolve call, from child j on: each
\* child is given the next identifier of its parent's clade.  A child without
\* a parent, or whose parent has no identifier, raises.
RECURSIVE SetChildIds(_, _, _)
SetChildIds(st, child_species, j) ==
    IF j > Len(child_species) \/ st.raised THEN st
    ELSE LET cs == child_species[j]
             parent == ParentSpecies(cs)
         IN IF parent = NoSpecies \/ st.identifier[parent] = NoIdentifier
            THEN [st EXCEPT !.raised = TRUE]
            ELSE LET clade == Clade(st.identifier, parent)
                     got == GetUnusedSpeciesId(st.species_ids, clade)
                 IN SetChildIds([st EXCEPT !.identifier[cs] = got.sid,
                                           !.species_ids = got.species_ids,
                                           !.issued = Append(@, got.sid)],
                                child_species, j + 1)

\* The loop over the extant species in _get_surviving_species, from the i-th
\* on.  outcome[i] is what the i-th species' _evolve does.
RECURSIVE EvolveLoop(_, _, _, _)
EvolveLoop(i, extant_species, outcome, st) ==
    IF i > Len(extant_species) \/ st.raised THEN st
    ELSE LET es == extant_species[i]
             oc == outcome[i]
             called == [st EXCEPT !.evolved = Append(@, [es |-> es, outcome |-> oc])]
         IN IF oc.raises THEN [called EXCEPT !.raised = TRUE]
            ELSE EvolveLoop(i + 1, extant_species, outcome,
                     SetChildIds(
                         [called EXCEPT
                             !.extant[es] = oc.extant,
                             !.surviving_species =
                                 @ \o (IF oc.extant THEN <<es>> ELSE <<>>) \o oc.children],
                         oc.children, 1))

\* A faulty end of _get_surviving_species that inserts the add on also when
\* the loop raised.
SurvivingSpeciesMerges(loop, record, add_on) ==
    [loop EXCEPT !.record = InsertRecordAddOn(record, add_on)]

\* The end of _get_surviving_species, loop being what its loop over the
\* extant species left: the add on is inserted in the record.
SurvivingSpecies(loop, record, add_on) ==
    [loop EXCEPT !.record = IF loop.raised THEN record
                            ELSE InsertRecordAddOn(record, add_on)]

\* _get_surviving_species(time, dt).  add_on is the add on as the species
\* leave it.
GetSurvivingSpecies(record, species, st, outcome, add_on) ==
    SurvivingSpecies(EvolveLoop(1, ObjectsAtTime(GetPriorTime(record), species), outcome, st),
                     record, add_on)

\* The outcomes of n calls that a loop can see: after a raise no call is made.
Outcomes(n, outcomes, raises) ==
    {oc \in [1..n -> outcomes] :
        \A i \in 1..n : (\E j \in 1..(i - 1) : oc[j].raises) => oc[i] = raises}

\* A faulty run_one_step without the test for an empty species ledger: it
\* processes the species, and prints no warning, also when none is tracked.
RunOneStepSilent(dt, count, zm_outcome, zone_add_on, evolve_outcomes, species_add_ons) ==
    \E time \in {Max(_record["time"]) + dt} :
    \E record1 \in {[_record EXCEPT !["time"] = Append(@, time)]} :
    \E new_zones \in {CreateAll(1, Range(_zones.object), count)} :
    \E z \in GetUpdatedZones(record1, _zones, new_zones, zm_outcome, zone_add_on) :
    \E call \in {[op |-> "run_one_step",
                  raised |-> IF z.raised THEN "_get_updated_zones" ELSE Returned, warned |-> FALSE,
                  species |-> NoSpecies, species_zones |-> {}, dt |-> dt, time |-> time,
                  new_zones |-> new_zones,
                  zm_calls |-> z.zm_calls, updated_zones |-> z.updated_zones,
                  evolved |-> <<>>, zone_add_on |-> zone_add_on,
                  species_add_on |-> EmptyAddOn]} :
        IF z.raised
        THEN /\ _record' = record1
             /\ last' = call
             /\ UNCHANGED <<_zones, _species, _species_ids, identifier, extant,
                            issued, clades_issued>>
        ELSE /\ _zones' \in UpdateZoneDataStructure(_zones, time, z.updated_zones)
             /\ UNCHANGED clades_issued
             /\ \E n \in {Len(ObjectsAtTime(GetPriorTime(record1), _species))} :
                     \E outcome \in Outcomes(n, evolve_outcomes, EvolveRaises),
                        add_on \in species_add_ons :
                     \E s \in {GetSurvivingSpecies(z.record, _species,
                                   [raised |-> FALSE, record |-> z.record,
                                    identifier |-> identifier,
                                    species_ids |-> _species_ids, issued |-> issued,
                                    extant |-> extant, surviving_species |-> <<>>,
                                    evolved |-> <<>>],
                                   outcome, add_on)} :
                         /\ n = 0 => add_on = EmptyAddOn
                         /\ _record' = s.record
                         /\ _species_ids' = s.species_ids
                         /\ identifier' = s.identifier
                         /\ extant' = s.extant
                         /\ issued' = s.issued
                         /\ last' = [call EXCEPT !.raised = IF s.raised THEN "_get_surviving_species"
                                                             ELSE Returned,
                                                 !.evolved = s.evolved,
                                                 !.species_add_on = add_on]
                         /\ IF s.raised THEN UNCHANGED _species
                            ELSE _species' \in UpdateSpeciesDataStructure(
                                     _species, s.identifier, time, s.surviving_species)

\* run_one_step(dt) with what the collaborators do in it: count[zm] zones are
\* created by manager zm, zm_outcome[zm] is its _update_paths, zone_add_on the
\* add on the managers leave; the species' _evolve outcomes are drawn from
\* evolve_outcomes and the add on they leave from species_add_ons.  A
\* quantifier over a one-element set names a local of the method.
RunOneStep(dt, count, zm_outcome, zone_add_on, evolve_outcomes, species_add_ons) ==
    \E time \in {Max(_record["time"]) + dt} :
    \E record1 \in {[_record EXCEPT !["time"] = Append(@, time)]} :
    \E new_zones \in {CreateAll(1, Range(_zones.object), count)} :
    \E z \in GetUpdatedZones(record1, _zones, new_zones, zm_outcome, zone_add_on) :
    \E call \in {[op |-> "run_one_step",
                  raised |-> IF z.raised THEN "_get_updated_zones" ELSE Returned, warned |-> FALSE,
                  species |-> NoSpecies, species_zones |-> {}, dt |-> dt, time |-> time,
                  new_zones |-> new_zones,
                  zm_calls |-> z.zm_calls, updated_zones |-> z.updated_zones,
                  evolved |-> <<>>, zone_add_on |-> zone_add_on,
                  species_add_on |-> EmptyAddOn]} :
        IF z.raised
        THEN /\ _record' = record1
             /\ last' = call
             /\ UNCHANGED <<_zones, _species, _species_ids, identifier, extant,
                            issued, clades_issued>>
        ELSE /\ _zones' \in UpdateZoneDataStructure(_zones, time, z.updated_zones)
             /\ UNCHANGED clades_issued
             /\ IF Len(_species.object) = 0
                THEN /\ _record' = z.record
                     /\ last' = [call EXCEPT !.warned = TRUE]
                     /\ UNCHANGED <<_species, _species_ids, identifier, extant, issued>>
                ELSE \E n \in {Len(ObjectsAtTime(GetPriorTime(record1), _species))} :
                     \E outcome \in Outcomes(n, evolve_outcomes, EvolveRaises),
                        add_on \in species_add_ons :
                     \E s \in {GetSurvivingSpecies(z.record, _species,
                                   [raised |-> FALSE, record |-> z.record,
                                    identifier |-> identifier,
                                    species_ids |-> _species_ids, issued |-> issued,
                                    extant |-> extant, surviving_species |-> <<>>,
                                    evolved |-> <<>>],
                                   outcome, add_on)} :
                         /\ n = 0 => add_on = EmptyAddOn
                         /\ _record' = s.record
                         /\ _species_ids' = s.species_ids
                         /\ identifier' = s.identifier
                         /\ extant' = s.extant
                         /\ issued' = s.issued
                         /\ last' = [call EXCEPT !.raised = IF s.raised THEN "_get_surviving_species"
                                                             ELSE Returned,
                                                 !.evolved = s.evolved,
                                                 !.species_add_on = add_on]
                         /\ IF s.raised THEN UNCHANGED _species
                            ELSE _species' \in UpdateSpeciesDataStructure(
                                     _species, s.identifier, time, s.surviving_species)

\* -------------------------------------------------------- introduce_species

\* A faulty introduce_species that allocates the clade name before it checks
\* the species.
IntroduceSpeciesEager(species, species_zones) ==
    \E time \in {Max(_record["time"])} :
    \E call \in {[op |-> "introduce_species", raised |-> Returned, warned |-> FALSE,
                  species |-> species, species_zones |-> species_zones, dt |-> 0,
                  time |-> time,
                  new_zones |-> <<>>,
                  zm_calls |-> <<>>, updated_zones |-> <<>>, evolved |-> <<>>,
                  zone_add_on |-> EmptyAddOn, species_add_on |-> EmptyAddOn]} :
    \E named \in {GetUnusedCladeName(_species_ids)} :
        IF species \in Range(_species.object) \/ species_zones = {}
        THEN /\ last' = [call EXCEPT !.raised = "introduce_species"]
             /\ _species_ids' = named.species_ids
             /\ clades_issued' = Append(clades_issued, named.clade_name)
             /\ UNCHANGED <<_record, _zones, _species, identifier, extant, issued>>
        ELSE \E got \in {GetUnusedSpeciesId(named.species_ids, named.clade_name)} :
             \E ident \in {[identifier EXCEPT ![species] = got.sid]} :
                 /\ _species_ids' = got.species_ids
                 /\ identifier' = ident
                 /\ issued' = Append(issued, got.sid)
                 /\ clades_issued' = Append(clades_issued, named.clade_name)
                 /\ _species' \in UpdateSpeciesDataStructure(_species, ident, time, <<species>>)
                 /\ last' = call
                 /\ UNCHANGED <<_record, _zones, extant>>

\* introduce_species(species), the species occupying the zones species_zones.
IntroduceSpecies(species, species_zones) ==
    \E time \in {Max(_record["time"])} :
    \E call \in {[op |-> "introduce_species", raised |-> Returned, warned |-> FALSE,
                  species |-> species, species_zones |-> species_zones, dt |-> 0,
                  time |-> time,
                  new_zones |-> <<>>,
                  zm_calls |-> <<>>, updated_zones |-> <<>>, evolved |-> <<>>,
                  zone_add_on |-> EmptyAddOn, species_add_on |-> EmptyAddOn]} :
        IF species \in Range(_species.object) \/ species_zones = {}
        THEN /\ last' = [call EXCEPT !.raised = "introduce_species"]
             /\ UNCHANGED <<_record, _zones, _species, _species_ids, identifier,
                            extant, issued, clades_issued>>
        ELSE \E named \in {GetUnusedCladeName(_species_ids)} :
             \E got \in {GetUnusedSpeciesId(named.species_ids, named.clade_name)} :
             \E ident \in {[identifier EXCEPT ![species] = got.sid]} :
                 /\ _species_ids' = got.species_ids
                 /\ identifier' = ident
                 /\ issued' = Append(issued, got.sid)
                 /\ clades_issued' = Append(clades_issued, named.clade_name)
                 /\ _species' \in UpdateSpeciesDataStructure(_species, ident, time, <<species>>)
                 /\ last' = call
                 /\ UNCHANGED <<_record, _zones, extant>>

\* ------------------------------------------------------------ specification

\* What the managers create in a step: MaxCreate zones each, or none.
MostZones == [zm \in ZoneManagers |-> MaxCreate]
NoZones == [zm \in ZoneManagers |-> 0]
ZmOutcomes == Outcomes(NumManagers, UpdatePathsOutcomes(MaxDest), UpdatePathsRaises)
ZmCarries == [zm \in ZoneManagers |-> UpdatePathsCarries]
ZmQuiet == Outcomes(NumManagers, {UpdatePathsCarries, UpdatePathsRaises}, UpdatePathsRaises)
EvOutcomes == EvolveOutcomes(MaxChildren)

\* The zones a species handed to introduce_species can occupy: none or some.
SpeciesZones == {{}, {1}}

\* An introduce_species call, of any species object.
Introduce ==
    \E species \in Species, species_zones \in SpeciesZones :
        IntroduceSpecies(species, species_zones)

\* A step in which the landscape changes: the managers create zones and
\* return any destinations; every extant species persists without children.
StepLandscape ==
    /\ Len(_record["time"]) <= MaxTicks
    /\ \E dt \in 1..MaxDt, zm_outcome \in ZmOutcomes :
            RunOneStep(dt, MostZones, zm_outcome, EmptyAddOn, {EvolvePersists}, {EmptyAddOn})

\* A step, of any dt, in which the lineages change: the species do anything
\* _evolve can; no zone is created and every manager returns its prior zones.
StepLineages ==
    /\ Len(_record["time"]) <= MaxTicks
    /\ \E dt \in DTs :
            RunOneStep(dt, NoZones, ZmCarries, EmptyAddOn, EvOutcomes, {EmptyAddOn})

\* A step, of any dt, in which neither changes: every manager returns its
\* prior zones or raises, every species persists or raises, and the ones that
\* are called write into the add ons.
StepQuiet ==
    /\ Len(_record["time"]) <= MaxTicks
    /\ \E dt \in DTs, zm_outcome \in ZmQuiet, zone_add_on \in AddOns :
            RunOneStep(dt, NoZones, zm_outcome, zone_add_on,
                       {EvolvePersists, EvolveRaises}, AddOns)

Next == Introduce \/ StepLandscape \/ StepLineages \/ StepQuiet

Spec == Init /\ [][Next]_vars

\* An instance without zones into which MaxClades species objects, numbered
\* in the order they are introduced, are introduced one after the other.
InitClade ==
    /\ _record = [key \in {"time"} |-> <<InitialTime>>]
    /\ _species = EmptySpecies
    /\ _zones = EmptyZones
    /\ _species_ids = [c \in {} |-> None]
    /\ identifier = [s \in 1..MaxClades |-> NoIdentifier]
    /\ extant = [s \in 1..MaxClades |-> TRUE]
    /\ issued = <<>>
    /\ clades_issued = <<>>
    /\ last = NoCall

IntroduceNext ==
    /\ Len(_species.object) < MaxClades
    /\ IntroduceSpecies(Len(_species.object) + 1, {1})

SpecClade == InitClade /\ [][IntroduceNext]_vars

\* The clade names and the numbers a query asks for: the ones the species of
\* the model can carry, and one more of each.
QueryClades == {<<k>> : k \in 1..(NumSpecies + 1)}
QueryNums == 0..NumSpecies

\* The values a tuple can hold: a clade name, a number, and values of other
\* types.
TupleElements ==
    {Element("str", clade, None) : clade \in QueryClades}
        \cup {Element("int", <<>>, num) : num \in QueryNums}
        \cup {Element("bool", <<>>, 1), Element("float", <<>>, None),
              Element("NoneType", <<>>, None)}

\* The tuples with a clade name and a number, and the tuples that are not
\* made so: of another length, or with an element of another type.
WellFormedTuples ==
    {TupleElement(<<Element("str", clade, None), Element("int", <<>>, num)>>) :
        clade \in QueryClades, num \in QueryNums}
MalformedTuples ==
    {TupleElement(elements) : elements \in
        {<<>>,
         <<Element("str", <<2>>, None)>>,
         <<Element("str", <<2>>, None), Element("int", <<>>, 0), Element("int", <<>>, 1)>>,
         <<Element("str", <<1>>, None), Element("NoneType", <<>>, None)>>,
         <<Element("str", <<2>>, None), Element("float", <<>>, None)>>,
         <<Element("NoneType", <<>>, None), Element("int", <<>>, 0)>>,
         <<Element("int", <<>>, 0), Element("int", <<>>, 0)>>,
         <<Element("str", <<1>>, None), Element("bool", <<>>, 1)>>}}

IdentifierElements ==
    WellFormedTuples \cup MalformedTuples
        \cup {IdentifierElement("str", clade, None) : clade \in QueryClades}
        \cup {IdentifierElement("int", <<>>, num) : num \in QueryNums}
        \cup {IdentifierElement("float", <<>>, None)}

\* A species_with_identifier call: it assigns to nothing of the instance.
Query ==
    \E identifier_element \in IdentifierElements :
        /\ last' = [op |-> "species_with_identifier",
                    identifier_element |-> identifier_element,
                    result |-> SpeciesWithIdentifier(_species, identifier_element)]
        /\ UNCHANGED <<_record, _zones, _species, _species_ids, identifier, extant,
                       issued, clades_issued>>

NextQuery == Introduce \/ StepLineages \/ Query

\* An instance whose lineages change and that is queried by identifier.
SpecQuery == Init /\ [][NextQuery]_vars

\* A step with dt > 0 in which no zone is created, every manager returns its
\* prior zones, every species persists, and the ones that are called write
\* into the add ons.
StepRecord ==
    /\ Len(_record["time"]) <= MaxRecordTicks
    /\ \E dt \in 1..MaxDt, zone_add_on \in AddOns :
            RunOneStep(dt, NoZones, ZmCarries, zone_add_on, {EvolvePersists}, AddOns)

NextRecord == Introduce \/ StepRecord

\* An instance that runs MaxRecordTicks steps whose collaborators contribute
\* to the record or not.
SpecRecord == Init /\ [][NextRecord]_vars

\* ------------------------------------------------------------------ claims

\* The largest and the least time a record can hold, and the times queried.
MaxTime == InitialTime + MaxTicks * MaxDt
MinTime == InitialTime - MaxTicks
QueryTimes == (MinTime - 1)..(MaxTime + 1)

\* The (clade, species_number) pair of row i of the species ledger.
RowIdentifier(i) == <<_species.clade[i], _species.species_number[i]>>

\* C1: every identifier the allocator hands out differs from every identifier
\* it handed out earlier, and no two rows of the species ledger carry the same
\* (clade, species_number) pair.
C1_IdentifiersDistinct ==
    /\ \A i, j \in DOMAIN issued : i # j => issued[i] # issued[j]
    /\ \A i, j \in DOMAIN _species.object : i # j => RowIdentifier(i) # RowIdentifier(j)

\* Three identifiers were handed out, two of them in one clade, and the
\* ledger has two rows of one clade.
C1_Witness ==
    /\ Len(issued) >= 3
    /\ \E i, j \in DOMAIN issued : i < j /\ issued[i][1] = issued[j][1]
    /\ \E i, j \in DOMAIN _species.object : i < j /\ _species.clade[i] = _species.clade[j]

\* The rows of the zone ledger that hold zone z.
ZoneRows(zones, z) == {i \in DOMAIN zones.object : zones.object[i] = z}

\* C2: when run_one_step reconciles the zone ledger at time T, every row keeps
\* its place, its zone and its time_appeared; the row of every returned zone
\* that was tracked gets latest_time = T; every returned zone that was not
\* tracked gets exactly one row, with time_appeared = latest_time = T.
C2_ZoneReconcile ==
    [][(last'.op = "run_one_step" /\ last'.raised # "_get_updated_zones") =>
        LET T == last'.time
            returned == Range(last'.updated_zones)
        IN /\ Len(_zones'.object) >= Len(_zones.object)
           /\ \A i \in DOMAIN _zones.object :
                /\ _zones'.object[i] = _zones.object[i]
                /\ _zones'.time_appeared[i] = _zones.time_appeared[i]
                /\ _zones.object[i] \in returned => _zones'.latest_time[i] = T
           /\ \A z \in returned \ Range(_zones.object) :
                /\ Cardinality(ZoneRows(_zones', z)) = 1
                /\ \A i \in ZoneRows(_zones', z) :
                        /\ i > Len(_zones.object)
                        /\ _zones'.time_appeared[i] = T
                        /\ _zones'.latest_time[i] = T]_vars

\* The step just made returned a zone that was tracked, returned one that was
\* not, and did not return a third that was tracked.
C2_Witness ==
    /\ last.op = "run_one_step" /\ last.raised = Returned
    /\ \E i, j, k \in DOMAIN _zones.object :
        /\ _zones.object[i] \in Range(last.updated_zones)
        /\ _zones.time_appeared[i] < last.time /\ _zones.latest_time[i] = last.time
        /\ _zones.object[j] \in Range(last.updated_zones)
        /\ _zones.time_appeared[j] = last.time /\ _zones.latest_time[j] = last.time
        /\ _zones.object[k] \notin Range(last.updated_zones)
        /\ _zones.latest_time[k] < last.time

\* The rows of a ledger whose interval holds t.
RowsAt(dictionary, t) ==
    {i \in DOMAIN dictionary.object :
        dictionary.time_appeared[i] <= t /\ t <= dictionary.latest_time[i]}

\* list is the objects of the rows of the ledger at t, one entry per row, in
\* row order.
IsRowsAt(list, dictionary, t) ==
    \E row \in [DOMAIN list -> RowsAt(dictionary, t)] :
        /\ Range(row) = RowsAt(dictionary, t)
        /\ \A i, j \in DOMAIN list : i < j => row[i] < row[j]
        /\ \A i \in DOMAIN list : list[i] = dictionary.object[row[i]]

\* C3: at every query time t, zones_at_time(t) and species_at_time(t) return
\* exactly the objects of the rows with time_appeared <= t <= latest_time,
\* each row once, in row order.
C3_ObjectsAtTime ==
    \A t \in QueryTimes :
        /\ IsRowsAt(ZonesAtTime(t), _zones, t)
        /\ IsRowsAt(SpeciesAtTime(t), _species, t)

\* At the latest time a query of the zone ledger skips a row between two it
\* returns, and a query of the species ledger returns one row of two.
C3_Witness ==
    /\ \E i, j, k \in DOMAIN _zones.object :
        /\ i < j /\ j < k
        /\ ZonesAtTime(last.time) = <<_zones.object[i], _zones.object[k]>>
    /\ Len(_species.object) = 2
    /\ Len(SpeciesAtTime(last.time)) = 1

\* The step made is a run_one_step that returned and found species tracked.
Evolved == last'.op = "run_one_step" /\ last'.raised = Returned /\ ~last'.warned

\* The children the _evolve calls of a step returned, in the order the step
\* handles them, from call i on.
RECURSIVE Children(_, _)
Children(evolved, i) ==
    IF i > Len(evolved) THEN <<>>
    ELSE evolved[i].outcome.children \o Children(evolved, i + 1)

\* C4: after a run_one_step to time T that found species tracked,
\* species_at_time(T) is the species that were extant at the previous time
\* and whose extant flag is true, together with every child an _evolve call
\* of the step returned; a species that was extant at the previous time and
\* whose extant flag is false is not in it.
C4_Survivors ==
    [][Evolved =>
        LET previous == _record["time"][Len(_record["time"])]
            was_extant == Range(ObjectsAtTime(previous, _species))
            children == Range(Children(last'.evolved, 1))
            now == Range(ObjectsAtTime(last'.time, _species'))
        IN /\ now = {s \in was_extant : extant'[s]} \cup children
           /\ \A s \in was_extant : ~extant'[s] => s \notin now]_vars

\* The highest number among the identifiers ids of a clade.
HighestIssued(ids, clade) ==
    LET numbers == {ids[i][2] : i \in {i \in DOMAIN ids : ids[i][1] = clade}}
    IN CHOOSE n \in numbers : \A m \in numbers : m <= n

\* C5: the k-th child handled in a run_one_step is given the next identifier
\* the allocator hands out, and it is (C, n + 1), C the clade of the child's
\* parent and n the highest number issued for C until then; a step that
\* returns has handled every child, and each holds the identifier it was
\* given last.
C5_ChildIdentifiers ==
    [][last'.op = "run_one_step" =>
        LET children == Children(last'.evolved, 1)
            before == Len(issued)
            given == Len(issued') - before
        IN /\ SubSeq(issued', 1, before) = issued
           /\ given <= Len(children)
           /\ last'.raised = Returned => given = Len(children)
           /\ \A k \in 1..given :
                LET clade == identifier[ParentSpecies(children[k])][1]
                    so_far == SubSeq(issued', 1, before + k - 1)
                IN /\ issued'[before + k] = <<clade, HighestIssued(so_far, clade) + 1>>
                   /\ (\A j \in (k + 1)..given : children[j] # children[k])
                        => identifier'[children[k]] = issued'[before + k]]_vars

\* The step just made returned a child that was given number 2 in the clade
\* of its parent: numbers 0 and 1 of the clade were issued before.
C5_Witness ==
    /\ last.op = "run_one_step" /\ last.raised = Returned
    /\ \E cs \in Range(Children(last.evolved, 1)) :
        /\ identifier[cs][2] = 2
        /\ identifier[cs][1] = identifier[ParentSpecies(cs)][1]

\* C6: an introduce_species(s) that returns takes a clade name that was never
\* issued, gives s the identifier (that name, 0) and adds one row for s to
\* the species ledger, with time_appeared = latest_time = the largest time in
\* the record; the other rows stay as they are.
C6_Introduce ==
    [][(last'.op = "introduce_species" /\ last'.raised = Returned) =>
        LET s == last'.species
            clade == identifier'[s][1]
            row == Len(_species.object) + 1
            T == Max(_record["time"])
        IN /\ clade \notin Range(clades_issued)
           /\ clade \notin DOMAIN _species_ids
           /\ clades_issued' = Append(clades_issued, clade)
           /\ identifier'[s] = <<clade, 0>>
           /\ _species' = [clade |-> Append(_species.clade, clade),
                           species_number |-> Append(_species.species_number, 0),
                           time_appeared |-> Append(_species.time_appeared, T),
                           latest_time |-> Append(_species.latest_time, T),
                           object |-> Append(_species.object, s)]]_vars

\* A species whose parent is tracked was introduced after a step: it is alone
\* in a clade other than its parent's, in a row at the latest time.
C6_Witness ==
    /\ last.op = "introduce_species" /\ last.raised = Returned
    /\ Len(_record["time"]) > 1
    /\ ParentSpecies(last.species) \in Range(_species.object)
    /\ identifier[last.species][2] = 0
    /\ identifier[last.species][1] # identifier[ParentSpecies(last.species)][1]
    /\ _species.object[Len(_species.object)] = last.species
    /\ _species.time_appeared[Len(_species.object)] = Max(_record["time"])

\* C7: introduce_species(s) raises when s is a row of the species ledger and
\* when s occupies no zone, and a call that raises leaves the ledgers, the
\* record, the registry and every identifier as they were.
C7_IntroduceFails ==
    [][last'.op = "introduce_species" =>
        /\ (last'.species \in Range(_species.object) \/ last'.species_zones = {})
                => last'.raised = "introduce_species"
        /\ last'.raised = "introduce_species"
                => UNCHANGED <<_record, _zones, _species, _species_ids, identifier,
                               extant, issued, clades_issued>>]_vars

\* The call just made raised for a species that is tracked and occupies
\* zones, in an instance that has handed out identifiers.
C7_Witness ==
    /\ last.op = "introduce_species" /\ last.raised = "introduce_species"
    /\ last.species \in Range(_species.object)
    /\ last.species_zones # {}
    /\ Len(issued) >= 2

\* The k-th name of A, ..., Z, AA, AB, ..., ZZ, AAA, ...: the names by length
\* and, within a length, in the order of the product of the alphabet.
RECURSIVE KthName(_)
KthName(k) ==
    IF k <= AlphabetSize THEN <<k>>
    ELSE Append(KthName((k - 1) \div AlphabetSize), ((k - 1) % AlphabetSize) + 1)

\* C8: the k-th clade name an instance issues is the k-th name of A, ..., Z,
\* AA, AB, ..., ZZ, AAA, ..., and the name issued last was not issued before.
C8_CladeNames ==
    /\ \A k \in DOMAIN clades_issued : clades_issued[k] = KthName(k)
    /\ \A k \in 1..(Len(clades_issued) - 1) :
            clades_issued[k] # clades_issued[Len(clades_issued)]

\* The 26th name issued is Z, the 27th AA, the 28th AB, the 702nd ZZ and the
\* 703rd AAA.
C8_Witness ==
    /\ Len(clades_issued) = 703
    /\ clades_issued[26] = <<26>>
    /\ clades_issued[27] = <<1, 1>>
    /\ clades_issued[28] = <<1, 2>>
    /\ clades_issued[702] = <<26, 26>>
    /\ clades_issued[703] = <<1, 1, 1>>

\* C9: after every run_one_step that returned, every column of the record has
\* as many entries as the time column.
C9_ColumnsAligned ==
    (last.op = "run_one_step" /\ last.raised = Returned) =>
        \A key \in DOMAIN _record : Len(_record[key]) = Len(_record["time"])

\* C10: the time column of the record is strictly increasing.
C10_TimeIncreasing ==
    \A i, j \in DOMAIN _record["time"] :
        i < j => _record["time"][i] < _record["time"][j]

\* C11: every row of the zone ledger and of the species ledger has
\* time_appeared <= latest_time.
C11_AppearedBeforeLatest ==
    /\ \A i \in DOMAIN _zones.object : _zones.time_appeared[i] <= _zones.latest_time[i]
    /\ \A i \in DOMAIN _species.object :
            _species.time_appeared[i] <= _species.latest_time[i]

\* C12: the identifier of a species object is assigned once: no call changes
\* an identifier that is set.
C12_IdentifierWriteOnce ==
    [][\A s \in Species :
        identifier[s] # NoIdentifier => identifier'[s] = identifier[s]]_vars

\* The columns of a record other than time.
Metrics(record) == [key \in DOMAIN record \ {"time"} |-> record[key]]

\* C13: a run_one_step in which an _update_paths raises leaves the zone
\* ledger and the metric columns of the record as they were before the call;
\* one in which an _evolve raises leaves the species ledger as it was and the
\* metric columns as the zone part of the step left them: the add on of the
\* managers is inserted, the add on of the species is not.
C13_RaiseLeavesNoPart ==
    [][last'.op = "run_one_step" =>
        /\ last'.raised = "_get_updated_zones" =>
                /\ _zones' = _zones
                /\ _species' = _species
                /\ Metrics(_record') = Metrics(_record)
        /\ last'.raised = "_get_surviving_species" =>
                /\ _species' = _species
                /\ Metrics(_record') =
                        Metrics(InsertRecordAddOn(
                            [_record EXCEPT !["time"] = Append(@, last'.time)],
                            last'.zone_add_on))]_vars

\* The step just made raised in the _evolve of the second species, after the
\* managers and the first species had written into their add ons: the
\* record holds the entry of the managers alone.
C13_Witness ==
    /\ last.op = "run_one_step" /\ last.raised = "_get_surviving_species"
    /\ Len(last.evolved) = 2
    /\ last.zone_add_on # EmptyAddOn
    /\ last.species_add_on # EmptyAddOn
    /\ "splits" \in DOMAIN _record
    /\ Len(_record["splits"]) = Len(_record["time"])

\* C14: a run_one_step that finds the species ledger without rows calls no
\* _evolve and leaves the species ledger, the registry and every identifier
\* as they are; when no _update_paths raises it prints the warning and has
\* done the zone part: the time is appended, every manager was called, the
\* zone ledger is reconciled with what they returned and their add on is
\* inserted in the record.  No other run_one_step prints the warning.
C14_NoSpecies ==
    [][last'.op = "run_one_step" =>
        /\ last'.warned => Len(_species.object) = 0
        /\ Len(_species.object) = 0 =>
            /\ last'.evolved = <<>>
            /\ last'.raised # "_get_surviving_species"
            /\ UNCHANGED <<_species, _species_ids, identifier, issued, clades_issued>>
            /\ _record'["time"] = Append(_record["time"], last'.time)
            /\ last'.raised = Returned =>
                /\ last'.warned
                /\ [i \in DOMAIN last'.zm_calls |-> last'.zm_calls[i].zm]
                        = [zm \in ZoneManagers |-> zm]
                /\ _zones' \in UpdateZoneDataStructure(_zones, last'.time,
                                                       last'.updated_zones)
                /\ _record' = InsertRecordAddOn(
                                [_record EXCEPT !["time"] = Append(@, last'.time)],
                                last'.zone_add_on)]_vars

\* The step just made printed the warning; it set the latest_time of a zone
\* that was tracked and inserted the add on of the managers.
C14_Witness ==
    /\ last.op = "run_one_step" /\ last.warned
    /\ last.zone_add_on # EmptyAddOn
    /\ "splits" \in DOMAIN _record
    /\ \E i \in DOMAIN _zones.object :
        /\ _zones.time_appeared[i] < last.time
        /\ _zones.latest_time[i] = last.time

\* list is the first entries of longer.
IsPrefix(list, longer) ==
    /\ Len(list) <= Len(longer)
    /\ \A i \in DOMAIN list : longer[i] = list[i]

\* C15: no call removes a row from a ledger or an entry from the record, and
\* no call changes the object, the time_appeared or the identifier columns of
\* a row: of the rows a ledger has, a call changes latest_time alone.
C15_OnlyGrow ==
    [][/\ IsPrefix(_zones.object, _zones'.object)
       /\ IsPrefix(_zones.time_appeared, _zones'.time_appeared)
       /\ Len(_zones.latest_time) <= Len(_zones'.latest_time)
       /\ IsPrefix(_species.object, _species'.object)
       /\ IsPrefix(_species.time_appeared, _species'.time_appeared)
       /\ IsPrefix(_species.clade, _species'.clade)
       /\ IsPrefix(_species.species_number, _species'.species_number)
       /\ Len(_species.latest_time) <= Len(_species'.latest_time)
       /\ \A key \in DOMAIN _record :
            /\ key \in DOMAIN _record'
            /\ IsPrefix(_record[key], _record'[key])]_vars

\* Both ledgers hold a row that was updated after it was appended and a row
\* that was appended after the first, and a metric column holds two values
\* that were written.
C15_Witness ==
    /\ \E i, j \in DOMAIN _zones.object :
        /\ _zones.time_appeared[i] < _zones.latest_time[i]
        /\ _zones.time_appeared[i] < _zones.time_appeared[j]
    /\ \E i, j \in DOMAIN _species.object :
        /\ _species.time_appeared[i] < _species.latest_time[i]
        /\ _species.time_appeared[i] < _species.time_appeared[j]
    /\ "splits" \in DOMAIN _record
    /\ \E i, j \in DOMAIN _record["splits"] :
        i < j /\ _record["splits"][i] # NaN /\ _record["splits"][j] # NaN

\* A tuple of a clade name and an integer.
IsPair(identifier_element) ==
    /\ identifier_element.type = "tuple"
    /\ Len(identifier_element.elements) = 2
    /\ identifier_element.elements[1].type = "str"
    /\ identifier_element.elements[2].type = "int"

\* The clade name and the number a key asks for.
KeyClade(identifier_element) ==
    IF identifier_element.type = "tuple" THEN identifier_element.elements[1].clade
    ELSE identifier_element.clade
KeyNum(identifier_element) ==
    IF identifier_element.type = "tuple" THEN identifier_element.elements[2].num
    ELSE identifier_element.num

\* The rows of the species ledger that match an identifier element.
Matching(identifier_element) ==
    {i \in DOMAIN _species.object :
        /\ identifier_element.type \in {"tuple", "str"} =>
                _species.clade[i] = KeyClade(identifier_element)
        /\ identifier_element.type \in {"tuple", "int"} =>
                _species.species_number[i] = KeyNum(identifier_element)}

\* C16: species_with_identifier changes no state; for a tuple of a clade name
\* and a number, a str or an int it returns None exactly when no row of the
\* species ledger matches, and else the matching rows and no other, each
\* once, in ledger order and as the ledger holds them; a tuple matches one
\* row at most.
C16_SpeciesWithIdentifier ==
    [][last'.op = "species_with_identifier" =>
        /\ UNCHANGED <<_record, _zones, _species, _species_ids, identifier, extant,
                       issued, clades_issued>>
        /\ (IsPair(last'.identifier_element)
                \/ last'.identifier_element.type \in {"str", "int"}) =>
            /\ last'.result.raised = Returned
            /\ last'.result.none <=> Matching(last'.identifier_element) = {}
            /\ last'.identifier_element.type = "tuple" =>
                    Cardinality(Matching(last'.identifier_element)) <= 1
            /\ ~last'.result.none =>
                /\ Len(last'.result.s_out) = Cardinality(Matching(last'.identifier_element))
                /\ \A k \in DOMAIN last'.result.s_out :
                    \E i \in Matching(last'.identifier_element) :
                        /\ last'.result.s_out[k].index = i - 1
                        /\ last'.result.s_out[k].clade = _species.clade[i]
                        /\ last'.result.s_out[k].species_number = _species.species_number[i]
                        /\ last'.result.s_out[k].time_appeared = _species.time_appeared[i]
                        /\ last'.result.s_out[k].latest_time = _species.latest_time[i]
                        /\ last'.result.s_out[k].object = _species.object[i]
                /\ \A k, l \in DOMAIN last'.result.s_out :
                    k < l => last'.result.s_out[k].index < last'.result.s_out[l].index]_vars

\* A tuple selected the one row it matches out of a ledger that has another
\* row of that clade.
C16_Witness ==
    /\ last.op = "species_with_identifier"
    /\ IsPair(last.identifier_element)
    /\ Len(last.result.s_out) = 1
    /\ \E i \in DOMAIN _species.object :
        /\ _species.clade[i] = KeyClade(last.identifier_element)
        /\ _species.species_number[i] # KeyNum(last.identifier_element)

\* The rows of a ledger before a step whose object is not in the collection
\* the step reconciles keep time_appeared and latest_time, and the query of
\* the ledger after the step at the time T of the step does not return the
\* object of such a row whose latest_time is before T.
Untouched(before, after, reconciled, T) ==
    \A i \in DOMAIN before.object :
        before.object[i] \notin reconciled =>
            /\ after.object[i] = before.object[i]
            /\ after.time_appeared[i] = before.time_appeared[i]
            /\ after.latest_time[i] = before.latest_time[i]
            /\ before.latest_time[i] < T =>
                    before.object[i] \notin Range(ObjectsAtTime(T, after))

\* The species a step that evolved reconciles: the species whose _evolve left
\* them extant and the children.
Survivors(evolved) ==
    {evolved[i].es : i \in {i \in DOMAIN evolved : evolved[i].outcome.extant}}
        \cup Range(Children(evolved, 1))

\* C17: a zone tracked in the zone ledger and not among the zones the managers
\* returned in a tick, and a species tracked in the species ledger and not
\* among the survivors of a tick or not the species introduced, keeps its
\* time_appeared and latest_time in that reconcile, and with latest_time < T
\* the query at the time T of the reconcile does not return it.
C17_AbsentUntouched ==
    [][/\ (last'.op = "run_one_step" /\ last'.raised # "_get_updated_zones") =>
            Untouched(_zones, _zones', Range(last'.updated_zones), last'.time)
       /\ Evolved =>
            Untouched(_species, _species', Survivors(last'.evolved), last'.time)
       /\ (last'.op = "introduce_species" /\ last'.raised = Returned) =>
            Untouched(_species, _species', {last'.species}, last'.time)]_vars

\* The step just made reconciled a zone ledger that tracks a zone the
\* managers did not return and a species ledger that tracks a species that is
\* not among the survivors; another zone and another species were updated.
C17_Witness ==
    /\ last.op = "run_one_step" /\ last.raised = Returned /\ ~last.warned
    /\ \E i, j \in DOMAIN _zones.object :
        /\ _zones.object[i] \notin Range(last.updated_zones)
        /\ _zones.latest_time[i] < last.time
        /\ _zones.object[i] \notin Range(ZonesAtTime(last.time))
        /\ _zones.object[j] \in Range(last.updated_zones)
        /\ _zones.time_appeared[j] < last.time /\ _zones.latest_time[j] = last.time
    /\ \E i, j \in DOMAIN _species.object :
        /\ _species.object[i] \notin Survivors(last.evolved)
        /\ _species.latest_time[i] < last.time
        /\ _species.object[i] \notin Range(SpeciesAtTime(last.time))
        /\ _species.object[j] \in Survivors(last.evolved)
        /\ _species.time_appeared[j] < last.time /\ _species.latest_time[j] = last.time

\* The rows of a ledger that hold an object.
ObjectRows(dictionary, obj) ==
    {i \in DOMAIN dictionary.object : dictionary.object[i] = obj}

\* No object has two rows in the ledger.
OneRowEach(dictionary) ==
    \A obj \in Range(dictionary.object) : Cardinality(ObjectRows(dictionary, obj)) = 1

\* The destinations the _update_paths calls of a step returned, one entry per
\* zone returned, from call i on.
RECURSIVE Destinations(_, _)
Destinations(zm_calls, i) ==
    IF i > Len(zm_calls) THEN <<>>
    ELSE zm_calls[i].zm_dest \o Destinations(zm_calls, i + 1)

\* The species list a step that evolved reconciles, one entry per species
\* appended, from call i on.
RECURSIVE SurvivorList(_, _)
SurvivorList(evolved, i) ==
    IF i > Len(evolved) THEN <<>>
    ELSE (IF evolved[i].outcome.extant THEN <<evolved[i].es>> ELSE <<>>)
            \o evolved[i].outcome.children \o SurvivorList(evolved, i + 1)

\* Reconciling the list at T left each object of the list, however often the
\* list holds it, in one row with latest_time = T, and added one row per
\* object of the list that was not tracked.
ReconciledOnce(before, after, list, T) ==
    /\ \A obj \in Range(list) :
        /\ Cardinality(ObjectRows(after, obj)) = 1
        /\ \A i \in ObjectRows(after, obj) : after.latest_time[i] = T
    /\ Len(after.object) =
            Len(before.object) + Cardinality(Range(list) \ Range(before.object))

\* C18: no object has two rows in a ledger, before or after any step, and a
\* reconcile of a collection that holds an object more than once leaves that
\* object in one row with the latest_time of the reconcile, as a reconcile of
\* the object once does.
C18_OneRowPerObject ==
    [][/\ OneRowEach(_zones) /\ OneRowEach(_zones')
       /\ OneRowEach(_species) /\ OneRowEach(_species')
       /\ (last'.op = "run_one_step" /\ last'.raised # "_get_updated_zones") =>
            ReconciledOnce(_zones, _zones', Destinations(last'.zm_calls, 1), last'.time)
       /\ Evolved =>
            ReconciledOnce(_species, _species', SurvivorList(last'.evolved, 1), last'.time)]_vars

\* A list holds obj at two places at least.
Twice(list, obj) == \E i, j \in DOMAIN list : i < j /\ list[i] = obj /\ list[j] = obj

\* The step just made reconciled a species that survived and that two _evolve
\* calls returned as a child.
C18_Witness ==
    /\ last.op = "run_one_step" /\ last.raised = Returned /\ ~last.warned
    /\ \E s \in Species :
        /\ \E i, j \in DOMAIN last.evolved :
            /\ i < j
            /\ s \in Range(last.evolved[i].outcome.children)
            /\ s \in Range(last.evolved[j].outcome.children)
            /\ last.evolved[j].es = s /\ last.evolved[j].outcome.extant
        /\ Twice(SurvivorList(last.evolved, 1), s)
        /\ Cardinality(ObjectRows(_species, s)) = 1

\* The time recorded last.
PreviousTime(record) == record["time"][Len(record["time"])]

\* C19: a run_one_step that finds species tracked and returns has called
\* _evolve once on each species that is extant at the time recorded before
\* the step, in the order of their rows, and on no other species: not on a
\* child returned in the step, not on a species that is not extant then.
C19_EvolveOnce ==
    [][Evolved =>
        /\ [i \in DOMAIN last'.evolved |-> last'.evolved[i].es]
                = ObjectsAtTime(PreviousTime(_record), _species)
        /\ \A i, j \in DOMAIN last'.evolved :
                i # j => last'.evolved[i].es # last'.evolved[j].es
        /\ \A i \in DOMAIN last'.evolved :
                last'.evolved[i].es \in Range(_species.object)]_vars

\* The zones of a list that manager zm owns, in the order of the list.
OwnedBy(list, zm) == SelectSeq(list, LAMBDA z : ManagerOf(z) = zm)

\* C20: a run_one_step in which no _update_paths raises has called
\* _update_paths once on every manager, in the order of the manager list;
\* the prior zones of a call are the zones of its manager that are extant in
\* the zone ledger at the time recorded before the step, and its candidates
\* the zones of its manager among the zones created in the step.
C20_UpdatePathsOnce ==
    [][(last'.op = "run_one_step" /\ last'.raised # "_get_updated_zones") =>
        /\ [i \in DOMAIN last'.zm_calls |-> last'.zm_calls[i].zm]
                = [zm \in ZoneManagers |-> zm]
        /\ \A i \in DOMAIN last'.zm_calls :
            /\ last'.zm_calls[i].prior_zones
                    = OwnedBy(ObjectsAtTime(PreviousTime(_record), _zones),
                              last'.zm_calls[i].zm)
            /\ last'.zm_calls[i].new_zones
                    = OwnedBy(last'.new_zones, last'.zm_calls[i].zm)]_vars

\* The column _insert_record_add_on creates for a value when the time column
\* had ticks entries before the step: nan for each of them, then the value.
Backfilled(ticks, value) == Append(Repeat(NaN, ticks), value)

\* C21: when the add on of the managers, or the add on of the species, is
\* inserted in a run_one_step and has a key the record does not have, the
\* column created is nan for every earlier entry of time followed by the
\* value of the add on, and is as long as the time column right after the
\* insertion (a second insertion of the same step appends after that).
C21_NewColumn ==
    [][last'.op = "run_one_step" =>
        \A key \in Keys \ DOMAIN _record :
            /\ (last'.raised # "_get_updated_zones" /\ key \in AddOnKeys(last'.zone_add_on)) =>
                /\ key \in DOMAIN _record'
                /\ Len(_record'[key]) >= Len(_record'["time"])
                /\ SubSeq(_record'[key], 1, Len(_record'["time"]))
                        = Backfilled(Len(_record["time"]), AddOnValue(last'.zone_add_on, key))
                /\ ~(Evolved /\ key \in AddOnKeys(last'.species_add_on)) =>
                        Len(_record'[key]) = Len(_record'["time"])
            /\ (Evolved /\ key \notin AddOnKeys(last'.zone_add_on)
                    /\ key \in AddOnKeys(last'.species_add_on)) =>
                /\ key \in DOMAIN _record'
                /\ _record'[key] = Backfilled(Len(_record["time"]), AddOnValue(last'.species_add_on, key))
                /\ Len(_record'[key]) = Len(_record'["time"])]_vars

\* The step to the fourth time created the column: it holds nan for the
\* three earlier times and the value for the fourth.
C21_Witness ==
    /\ last.op = "run_one_step" /\ last.raised = Returned
    /\ Len(_record["time"]) = 4
    /\ "splits" \in DOMAIN _record
    /\ _record["splits"] = <<NaN, NaN, NaN, 1>>

\* The objects a ledger reports at time t, as a set.
ExtantAt(dictionary, t) == Range(ObjectsAtTime(t, dictionary))

\* C22: the ledgers are a faithful history.  Right after the reconcile at a
\* tick time T the queries at T return the zones the managers returned and
\* the survivors; an introduce_species adds the species to the answer at the
\* latest time; and no later call changes the answer of a query at a time
\* recorded earlier, so an entity that a tick did not reconcile is not
\* reported at that tick once a later tick reconciles it again.
C22_FaithfulHistory ==
    [][/\ (last'.op = "run_one_step" /\ last'.raised # "_get_updated_zones") =>
            ExtantAt(_zones', last'.time) = Range(last'.updated_zones)
       /\ Evolved =>
            ExtantAt(_species', last'.time) = Survivors(last'.evolved)
       /\ (last'.op = "introduce_species" /\ last'.raised = Returned) =>
            ExtantAt(_species', last'.time)
                = ExtantAt(_species, last'.time) \cup {last'.species}
       /\ \A t \in Range(_record["time"]) \ {last'.time} :
            /\ ExtantAt(_zones', t) = ExtantAt(_zones, t)
            /\ ExtantAt(_species', t) = ExtantAt(_species, t)]_vars

\* The objects of a list that are not tracked, each at the place of its
\* first occurrence, from entry i on; seen holds the ones met before i.
RECURSIVE FirstNew(_, _, _, _)
FirstNew(list, tracked, seen, i) ==
    IF i > Len(list) THEN <<>>
    ELSE (IF list[i] \in tracked \cup seen THEN <<>> ELSE <<list[i]>>)
            \o FirstNew(list, tracked, seen \cup {list[i]}, i + 1)

\* The rows a step appended to a ledger.
Appended(before, after) ==
    SubSeq(after.object, Len(before.object) + 1, Len(after.object))

\* C23: the objects a reconcile adds to a ledger are appended in the order of
\* their first occurrence in the reconciled collection: the zones in the
\* order the _update_paths calls returned them, the species in the order the
\* _evolve calls retained or returned them, so that the ledger after a step
\* is determined by the ledger before it and what the collaborators returned.
C23_AppendOrder ==
    [][/\ (last'.op = "run_one_step" /\ last'.raised # "_get_updated_zones") =>
            Appended(_zones, _zones')
                = FirstNew(Destinations(last'.zm_calls, 1), Range(_zones.object), {}, 1)
       /\ Evolved =>
            Appended(_species, _species')
                = FirstNew(SurvivorList(last'.evolved, 1), Range(_species.object), {}, 1)]_vars

====
